---- MODULE Spec2Model ----
(***************************************************************************)
(* Green Productions ERP: the DSO (Digital Standard Operation) version and *)
(* approval lifecycle and the change-request workflow, as implemented by   *)
(* app/api/dso.py, app/api/orders.py, app/models/dso.py,                   *)
(* app/models/audit.py and app/models/order.py, and the quality figures of *)
(* app/services/qc_analytics.py over the tables of app/models/qc.py, the   *)
(* production tasks of app/api/production.py and app/models/production.py, *)
(* and the material requests of app/api/materials.py and                   *)
(* app/models/material.py.                                                 *)
(*                                                                         *)
(* One action per request handler.  A handler runs to completion in one    *)
(* database transaction, so an action is the whole handler: the role       *)
(* check of require_roles, the early returns, the mutations and the commit.*)
(* Rows are kept in sequences; a row's id is its index (autoincrement      *)
(* primary keys, no row of these tables is deleted by the handlers         *)
(* modelled here, except accessory rows, which carry their own id).        *)
(*                                                                         *)
(* The handlers carry no bound.  Each specification bounds the tables in   *)
(* its next-state relation, by not issuing a request that would add a row  *)
(* to a full table, and lists the handlers it exercises:                   *)
(*   SpecFlow      the status machine of a DSO and the change-request      *)
(*                 workflow, failed requests included                      *)
(*   SpecEdit      the content of a DSO: fields, size charts, front image  *)
(*                 and accessory rows, failed requests included            *)
(*   SpecVersions  the version chain of DSOs over several orders, through  *)
(*                 the requests that succeed (a failed request changes     *)
(*                 nothing but the request log)                            *)
(*   SpecChangeRequest  the methods approve, reject and implement of a     *)
(*                 ChangeRequest called directly, in any order             *)
(*   SpecQuality   calculate_fpy and calculate_quality_score over every    *)
(*                 small content of the qc_sheet and defect_log tables     *)
(*   SpecPareto    get_defect_pareto over every small content of the       *)
(*                 defect_log table                                        *)
(*   SpecRace      create_dso as two steps, its reads and its commit, of   *)
(*                 requests served at the same time                        *)
(*   SpecSummary   generate_summary_report over every small content of the *)
(*                 qc_sheet and defect_log tables                          *)
(*   SpecProduction  the production tasks of one order, their worker logs  *)
(*                 and the approval of the order's DSO                     *)
(*   SpecMaterials the material requests, their QC sheet and the inventory *)
(***************************************************************************)
EXTENDS Integers, Sequences, FiniteSets, TLC

\* ------------------------------------------------------------------ bounds
\* SpecFlow: orders, DSO rows, change requests
FlowMaxOrders == 1
FlowMaxDso == 2
FlowMaxCr == 1
\* SpecSummary: inspection sheets and defect rows beside those of create_order
SummaryMaxSheets == 2
SummaryMaxDefects == 1
\* SpecChangeRequest: change requests filed against the approved DSO
MethodCrs == 2
\* SpecQuality: inspection sheets and defect rows beside those of create_order
QcMaxSheets == 2
QcMaxDefects == 2
\* SpecPareto: defect rows
ParetoMaxDefects == 3
\* SpecEdit: orders, DSO rows, accessory rows
EditMaxOrders == 1
EditMaxDso == 2
EditMaxAcc == 1
\* SpecRace: orders, DSO rows, requests handled at the same time
RaceMaxOrders == 2
RaceMaxDso == 6
MaxSessions == 2
\* SpecProduction: tasks of the order not yet completed at the start, worker
\* logs
ProdTasksOpen == 1
ProdMaxLogs == 1
\* SpecMaterials: material requests, the stock of a material, and the
\* quantities ordered and received of an item
MatMaxRequests == 1
MatMaxStock == 6
QtyOrdered == 2
QtyReceived == 3
\* SpecVersions: orders, DSO rows, change requests
MaxOrders == 2
MaxDso == 3
MaxCr == 1

\* ------------------------------------------------------------- value sets
NoneVal == "None"
\* datetime.utcnow(): the model keeps only whether a timestamp was recorded
UtcNow == "utcnow"
\* UserRole (models/user.py)
Roles == {"admin", "owner", "admin_produksi", "qc_line", "operator"}
\* the accounts of the model, each named by its role: one that may approve, one
\* that may edit but not approve, one that may do neither
Users == {"admin", "admin_produksi", "operator"}
\* the empty JSON body {}
EmptyBody == <<>>

VARIABLES orders, dsos, size_chart_dewasa, size_chart_anak, accessories,
          acc_seq, change_requests, qc_sheets, defect_logs, last, report,
          sessions, production_tasks, worker_logs, log_seq,
          material_requests, materials

vars == <<orders, dsos, size_chart_dewasa, size_chart_anak, accessories,
          acc_seq, change_requests, qc_sheets, defect_logs, last, report,
          sessions, production_tasks, worker_logs, log_seq,
          material_requests, materials>>

\* the tables of the order, DSO, change-request and QC routes
db == <<orders, dsos, size_chart_dewasa, size_chart_anak, accessories,
        acc_seq, change_requests, qc_sheets, defect_logs>>

\* the tables of the production routes
production == <<production_tasks, worker_logs, log_seq>>

\* the tables of the material routes
inventory == <<material_requests, materials>>

\* what the handlers of the DSO and change-request routes, taken as one
\* transaction each, and the analytics never write: the requests that are
\* between their reads and their commit, the production tables and the
\* material tables
others == <<sessions, production, inventory>>

OrderIds == 1..Len(orders)
DsoIds == 1..Len(dsos)
CrIds == 1..Len(change_requests)

\* ---------------------------------------------------------------- helpers
\* data.get(key, default)
Get(data, key, default) == IF key \in DOMAIN data THEN data[key] ELSE default

\* require_roles: the request passes when the user's role is one of `roles`
require_roles(u, roles) == u \in roles

\* the request log: the handler that ran last, the row its route addressed
\* (for create_order the order it created; 0 when the request was turned away
\* before a row was found), the acting user of a successful request, and the
\* HTTP status of the response
Response(op, id, u, code) == [op |-> op, id |-> id, user |-> u, code |-> code]

\* an early return with an error status: nothing was added to the session
Fail(op, id, code) ==
    /\ last' = Response(op, id, NoneVal, code)
    /\ UNCHANGED <<db, report, others>>

RECURSIVE MaxOf(_)
MaxOf(S) == IF S = {} THEN 0
            ELSE LET x == CHOOSE y \in S : TRUE
                     m == MaxOf(S \ {x})
                 IN IF x > m THEN x ELSE m

\* the payload of the last analytics call; none was made yet
NoReport == [fn |-> "none"]

\* ------------------------------------------------------------------- Init
\* the requests a server works on at the same time, each in a db.session of
\* its own
Sessions == 1..MaxSessions

\* a session with no request in it
IdleSession == [pc |-> "idle", user |-> NoneVal, order_id |-> 0, max_version |-> 0]

\* no request is under way
InitOthers ==
    /\ sessions = [s \in Sessions |-> IdleSession]
    /\ worker_logs = {}
    /\ log_seq = 0
    /\ material_requests = <<>>
    /\ materials = <<>>

Init ==
    /\ orders = <<>>
    /\ dsos = <<>>
    /\ size_chart_dewasa = <<>>
    /\ size_chart_anak = <<>>
    /\ accessories = {}
    /\ acc_seq = 0
    /\ change_requests = <<>>
    /\ qc_sheets = <<>>
    /\ defect_logs = <<>>
    /\ last = Response("none", 0, NoneVal, 200)
    /\ report = NoReport
    /\ production_tasks = <<>>
    /\ InitOthers

\* a new DSO row with the column defaults of models/dso.py
NewDso(order_id, version) ==
    [order_id |-> order_id, version |-> version, status |-> "draft",
     bahan |-> NoneVal, gambar_depan_url |-> NoneVal,
     approved_by |-> NoneVal, approved_at |-> NoneVal,
     rejection_reason |-> NoneVal]

\* db.session.add(dso): the row gets the next id and has no size chart yet
AddDso(row) ==
    /\ dsos' = Append(dsos, row)
    /\ size_chart_dewasa' = Append(size_chart_dewasa, <<>>)
    /\ size_chart_anak' = Append(size_chart_anak, <<>>)

\* ----------------------------------------------------------- create_order
\* the processes for which create_order adds a production task, in sequence
Processes == <<"cutting", "sewing", "sablon", "finishing", "packing">>

\* the day of the requests, as a day number (datetime.utcnow(), datetime.now())
Today == 40

\* a new QCSheet row with the column defaults of models/qc.py; the JSON
\* column checklist_json is a sequence of no value (NULL) or one value
NewQcSheet(order_id, production_task_id) ==
    [order_id |-> order_id, production_task_id |-> production_task_id,
     checklist_json |-> <<>>, qty_inspected |-> 0, qty_passed |-> 0,
     qty_failed |-> 0, created_at |-> Today]

\* the QC sheets create_order adds: one for each production task of the
\* order, the tasks of order o having the ids 5(o-1)+1 .. 5o
OrderQcSheets(o) ==
    [i \in 1..Len(Processes) |-> NewQcSheet(o, Len(Processes) * (o - 1) + i)]

\* qty_total of the body of create_order, a required key
QtyTotal == 2

\* a new ProductionTask row of create_order
NewTask(order_id) ==
    [order_id |-> order_id, status |-> "pending", qty_target |-> QtyTotal,
     qty_completed |-> 0]

\* the production tasks create_order adds, one for each process
OrderTasks(o) == [i \in 1..Len(Processes) |-> NewTask(o)]

create_order(u, valid) ==
    IF ~require_roles(u, {"admin", "owner", "admin_produksi"})
    THEN Fail("create_order", 0, 403)
    ELSE IF ~valid
    THEN Fail("create_order", 0, 400)
    ELSE /\ orders' = Append(orders, [status |-> "draft", dso_status |-> "not_created"])
         /\ AddDso(NewDso(Len(orders) + 1, 1))
         /\ production_tasks' = production_tasks \o OrderTasks(Len(orders) + 1)
         /\ qc_sheets' = qc_sheets \o OrderQcSheets(Len(orders) + 1)
         /\ last' = Response("create_order", Len(orders) + 1, u, 201)
         /\ UNCHANGED <<accessories, acc_seq, change_requests, defect_logs, report,
                        sessions, worker_logs, log_seq, inventory>>

\* ------------------------------------------------------------- create_dso
\* db.func.max(DSO.version) over the order's rows, `or 0`
MaxVersion(o) == MaxOf({dsos[d].version : d \in {x \in DsoIds : dsos[x].order_id = o}})

\* order.dso.first(): some DSO row of the order exists
HasDso(o) == \E d \in DsoIds : dsos[d].order_id = o

\* Order.get_latest_dso: the first row by descending version, any of the
\* rows with the highest version when several share it
get_latest_dso(o) ==
    {d \in DsoIds : dsos[d].order_id = o /\ dsos[d].version = MaxVersion(o)}

\* Order.update_dso_status: the dso_status it would assign, `latest` being
\* the row get_latest_dso returned; no handler calls the method
update_dso_status(o, latest) ==
    IF ~HasDso(o) THEN "not_created"
    ELSE IF dsos[latest].status = "approved" THEN "created"
    ELSE "draft"

create_dso(u, o) ==
    IF ~require_roles(u, {"admin", "owner", "admin_produksi"})
    THEN Fail("create_dso", 0, 403)
    ELSE IF o \notin OrderIds
    THEN Fail("create_dso", 0, 404)
    ELSE IF orders[o].dso_status \in {"draft", "created"} /\ HasDso(o)
    THEN Fail("create_dso", o, 400)
    ELSE /\ AddDso(NewDso(o, MaxVersion(o) + 1))
         /\ orders' = [orders EXCEPT ![o].dso_status = "draft"]
         /\ last' = Response("create_dso", o, u, 201)
         /\ UNCHANGED <<accessories, acc_seq, change_requests, qc_sheets, defect_logs, report, others>>

\* create_dso as two steps of one request in a session of its own, with other
\* requests running between them: the database (PostgreSQL, read committed;
\* config.py sets no isolation level) gives the session no lock on what it
\* read and the dso table has no unique constraint on (order_id, version).
\* First step: the role check, the order lookup, the check of dso_status and
\* the query for the maximum version.
create_dso_read(s, u, o) ==
    /\ sessions[s].pc = "idle"
    /\ IF ~require_roles(u, {"admin", "owner", "admin_produksi"})
       THEN Fail("create_dso", 0, 403)
       ELSE IF o \notin OrderIds
       THEN Fail("create_dso", 0, 404)
       ELSE IF orders[o].dso_status \in {"draft", "created"} /\ HasDso(o)
       THEN Fail("create_dso", o, 400)
       ELSE /\ sessions' = [sessions EXCEPT
                               ![s] = [pc |-> "read", user |-> u, order_id |-> o,
                                       max_version |-> MaxVersion(o)]]
            /\ UNCHANGED <<db, last, report, production, inventory>>

\* version written by a commit that queries the maximum again
CommittedVersion_fresh(s) == MaxVersion(sessions[s].order_id) + 1

\* version=max_version + 1, from the session's own query
CommittedVersion(s) == sessions[s].max_version + 1

\* Second step: the INSERT of the row, the UPDATE of the order and the commit
create_dso_commit(s) ==
    /\ sessions[s].pc = "read"
    /\ AddDso(NewDso(sessions[s].order_id, CommittedVersion(s)))
    /\ orders' = [orders EXCEPT ![sessions[s].order_id].dso_status = "draft"]
    /\ last' = Response("create_dso", sessions[s].order_id, sessions[s].user, 201)
    /\ sessions' = [sessions EXCEPT ![s] = IdleSession]
    /\ UNCHANGED <<accessories, acc_seq, change_requests, qc_sheets, defect_logs, report,
                   production, inventory>>

\* ------------------------------------------------------------- update_dso
\* EditableStatuses with the status check of update_dso also letting an
\* approved DSO through
EditableStatuses_approved == {"draft", "rejected", "approved"}

\* the statuses in which update_dso accepts an edit
EditableStatuses == {"draft", "rejected"}

\* the columns of DSO that update_dso copies from the body when present
DsoFields == {"bahan", "gambar_depan_url"}

\* the columns of a size-chart row (hasattr(chart, key))
ChartColumns == {"pendek_s"}

\* a JSON null where a number is expected
JsonNull == -1

\* Python's `value or 0`
Or0(value) == IF value = JsonNull THEN 0 ELSE value

\* for field in fields: if field in data: setattr(dso, field, data[field])
SetFields(row, data) ==
    [f \in DOMAIN row |-> IF f \in DsoFields /\ f \in DOMAIN data THEN data[f] ELSE row[f]]

\* the size-chart row of a DSO after the loop over chart_data.items(); the
\* one-to-one relation is a sequence of no row or one row, and a missing row
\* is created first, with the column default 0
SetChart(chart, chart_data) ==
    LET row == IF chart = <<>> THEN [c \in ChartColumns |-> 0] ELSE chart[1]
    IN << [c \in ChartColumns |->
            IF c \in DOMAIN chart_data THEN Or0(chart_data[c]) ELSE row[c]] >>

\* data.get('status') == 'published': the implicit publish on save
Publish(row, data) ==
    IF Get(data, "status", NoneVal) = "published"
    THEN [row EXCEPT !.status = "approved"]
    ELSE row

\* the request bodies of update_dso
UpdateBodies ==
    { [bahan |-> "t1",
       size_chart_dewasa |-> [pendek_s |-> 2],
       size_chart_anak |-> [pendek_s |-> JsonNull, bogus |-> 1]],
      [status |-> "published"],
      [status |-> "draft"] }

update_dso(u, d, data) ==
    IF ~require_roles(u, {"admin", "owner", "admin_produksi"})
    THEN Fail("update_dso", 0, 403)
    ELSE IF d \notin DsoIds
    THEN Fail("update_dso", 0, 404)
    ELSE IF dsos[d].status \notin EditableStatuses
    THEN Fail("update_dso", d, 400)
    ELSE /\ dsos' = [dsos EXCEPT ![d] = Publish(SetFields(dsos[d], data), data)]
         /\ size_chart_dewasa' =
                IF "size_chart_dewasa" \in DOMAIN data
                THEN [size_chart_dewasa EXCEPT
                        ![d] = SetChart(size_chart_dewasa[d], data["size_chart_dewasa"])]
                ELSE size_chart_dewasa
         /\ size_chart_anak' =
                IF "size_chart_anak" \in DOMAIN data
                THEN [size_chart_anak EXCEPT
                        ![d] = SetChart(size_chart_anak[d], data["size_chart_anak"])]
                ELSE size_chart_anak
         /\ orders' =
                IF Get(data, "status", NoneVal) = "published"
                THEN [orders EXCEPT ![dsos[d].order_id].dso_status = "created"]
                ELSE orders
         /\ last' = Response("update_dso", d, u, 200)
         /\ UNCHANGED <<accessories, acc_seq, change_requests, qc_sheets, defect_logs, report, others>>

\* ------------------------------------------------- upload_dso_front_image
\* the request carries the file or not; storage_service.upload_file succeeds
\* with a URL or fails
upload_dso_front_image(u, d, has_file, stored) ==
    IF ~require_roles(u, {"admin", "owner", "admin_produksi"})
    THEN Fail("upload", 0, 403)
    ELSE IF d \notin DsoIds
    THEN Fail("upload", 0, 404)
    ELSE IF ~has_file
    THEN Fail("upload", 0, 400)
    ELSE IF ~stored
    THEN Fail("upload", 0, 500)
    ELSE /\ dsos' = [dsos EXCEPT ![d].gambar_depan_url = "u1"]
         /\ last' = Response("upload", d, u, 200)
         /\ UNCHANGED <<orders, size_chart_dewasa, size_chart_anak, accessories,
                        acc_seq, change_requests, qc_sheets, defect_logs, report, others>>

\* ------------------------------------------------- submit / approve / reject
\* reject_allowed with the check inverted to "not a draft"
reject_allowed_not_draft(row) == row.status # "draft"

\* submit_allowed letting a rejected sheet through as well
submit_allowed_or_rejected(row) == row.status \in {"draft", "rejected"}

\* approve_allowed letting a draft through as well
approve_allowed_or_draft(row) == row.status \in {"draft", "pending_approval"}

\* reject_allowed letting an approved sheet through as well
reject_allowed_or_approved(row) == row.status \in {"pending_approval", "approved"}

\* the status checks of the three handlers
submit_allowed(row) == row.status = "draft"
approve_allowed(row) == row.status = "pending_approval"
reject_allowed(row) == row.status = "pending_approval"

submit_dso_for_approval(u, d) ==
    IF ~require_roles(u, {"admin", "owner", "admin_produksi"})
    THEN Fail("submit", 0, 403)
    ELSE IF d \notin DsoIds
    THEN Fail("submit", 0, 404)
    ELSE IF ~submit_allowed(dsos[d])
    THEN Fail("submit", d, 400)
    ELSE /\ dsos' = [dsos EXCEPT ![d].status = "pending_approval"]
         /\ last' = Response("submit", d, u, 200)
         /\ UNCHANGED <<orders, size_chart_dewasa, size_chart_anak, accessories,
                        acc_seq, change_requests, qc_sheets, defect_logs, report, others>>

approve_dso(u, d) ==
    IF ~require_roles(u, {"admin", "owner"})
    THEN Fail("approve", 0, 403)
    ELSE IF d \notin DsoIds
    THEN Fail("approve", 0, 404)
    ELSE IF ~approve_allowed(dsos[d])
    THEN Fail("approve", d, 400)
    ELSE /\ dsos' = [dsos EXCEPT ![d].status = "approved",
                                 ![d].approved_by = u,
                                 ![d].approved_at = UtcNow]
         /\ orders' = [orders EXCEPT ![dsos[d].order_id].status = "in_production",
                                     ![dsos[d].order_id].dso_status = "created"]
         /\ last' = Response("approve", d, u, 200)
         /\ UNCHANGED <<size_chart_dewasa, size_chart_anak, accessories,
                        acc_seq, change_requests, qc_sheets, defect_logs, report, others>>

\* the request bodies of reject
RejectBodies == {[reason |-> "r1"]}

reject_dso(u, d, data) ==
    IF ~require_roles(u, {"admin", "owner"})
    THEN Fail("reject", 0, 403)
    ELSE IF d \notin DsoIds
    THEN Fail("reject", 0, 404)
    ELSE IF ~reject_allowed(dsos[d])
    THEN Fail("reject", d, 400)
    ELSE /\ dsos' = [dsos EXCEPT ![d].status = "rejected",
                                 ![d].rejection_reason = Get(data, "reason", ""),
                                 ![d].approved_by = u,
                                 ![d].approved_at = UtcNow]
         /\ last' = Response("reject", d, u, 200)
         /\ UNCHANGED <<orders, size_chart_dewasa, size_chart_anak, accessories,
                        acc_seq, change_requests, qc_sheets, defect_logs, report, others>>

\* ------------------------------------------------------ create_new_version
\* DSO_create_new_version with the version copied instead of incremented
DSO_create_new_version_same(self) ==
    [order_id |-> self.order_id, version |-> self.version, status |-> "draft",
     bahan |-> self.bahan, gambar_depan_url |-> NoneVal,
     approved_by |-> NoneVal, approved_at |-> NoneVal,
     rejection_reason |-> NoneVal]

\* DSO_create_new_version copying the whole source row, approval included
DSO_create_new_version_clone(self) ==
    [self EXCEPT !.version = self.version + 1]

\* DSO.create_new_version: the row it returns.  bahan stands for the columns
\* the constructor call passes from self (bahan, warna, gramasi, jahitan,
\* benang, kancing, resleting, label_*, hangtag, packaging, catatan_*), each
\* as column=self.column; gambar_depan_url for those it does not pass
DSO_create_new_version(self) ==
    [NewDso(self.order_id, self.version + 1) EXCEPT !.bahan = self.bahan]

create_dso_new_version(u, d) ==
    IF ~require_roles(u, {"admin", "owner", "admin_produksi"})
    THEN Fail("new_version", 0, 403)
    ELSE IF d \notin DsoIds
    THEN Fail("new_version", 0, 404)
    ELSE /\ dsos' = Append([dsos EXCEPT ![d].status = "superseded"],
                           DSO_create_new_version(dsos[d]))
         /\ size_chart_dewasa' = Append(size_chart_dewasa, <<>>)
         /\ size_chart_anak' = Append(size_chart_anak, <<>>)
         /\ last' = Response("new_version", d, u, 201)
         /\ UNCHANGED <<orders, accessories, acc_seq, change_requests, qc_sheets, defect_logs, report, others>>

\* ------------------------------------------------------------ accessories
\* the request bodies of add_dso_accessory and update_dso_accessory
AddAccessoryBodies == {[name |-> "a1"]}
UpdateAccessoryBodies == {[name |-> "a2"]}

\* DSOAccessory.query.filter_by(id=acc_id, dso_id=dso_id)
AccessoryRows(d, a) == {r \in accessories : r.id = a /\ r.dso_id = d}

add_dso_accessory(u, d, data) ==
    IF ~require_roles(u, {"admin", "owner", "admin_produksi"})
    THEN Fail("add_accessory", 0, 403)
    ELSE IF d \notin DsoIds
    THEN Fail("add_accessory", 0, 404)
    ELSE /\ accessories' = accessories \cup
                {[id |-> acc_seq + 1, dso_id |-> d, name |-> Get(data, "name", NoneVal)]}
         /\ acc_seq' = acc_seq + 1
         /\ last' = Response("add_accessory", d, u, 201)
         /\ UNCHANGED <<orders, dsos, size_chart_dewasa, size_chart_anak, change_requests, qc_sheets, defect_logs, report, others>>

update_dso_accessory(u, d, a, data) ==
    IF ~require_roles(u, {"admin", "owner", "admin_produksi"})
    THEN Fail("update_accessory", 0, 403)
    ELSE IF AccessoryRows(d, a) = {}
    THEN Fail("update_accessory", 0, 404)
    ELSE /\ accessories' =
                {IF r \in AccessoryRows(d, a) /\ "name" \in DOMAIN data
                 THEN [r EXCEPT !.name = data["name"]] ELSE r : r \in accessories}
         /\ last' = Response("update_accessory", d, u, 200)
         /\ UNCHANGED <<orders, dsos, size_chart_dewasa, size_chart_anak, acc_seq,
                        change_requests, qc_sheets, defect_logs, report, others>>

delete_dso_accessory(u, d, a) ==
    IF ~require_roles(u, {"admin", "owner", "admin_produksi"})
    THEN Fail("delete_accessory", 0, 403)
    ELSE IF AccessoryRows(d, a) = {}
    THEN Fail("delete_accessory", 0, 404)
    ELSE /\ accessories' = accessories \ AccessoryRows(d, a)
         /\ last' = Response("delete_accessory", d, u, 200)
         /\ UNCHANGED <<orders, dsos, size_chart_dewasa, size_chart_anak, acc_seq,
                        change_requests, qc_sheets, defect_logs, report, others>>

\* -------------------------------------------------------- change requests
\* a new ChangeRequest row with the column defaults of models/audit.py
NewChangeRequest(dso_id) ==
    [dso_id |-> dso_id, status |-> "pending",
     approved_by |-> NoneVal, approved_at |-> NoneVal, approval_notes |-> NoneVal,
     implemented_at |-> NoneVal, new_dso_id |-> 0]

\* ChangeRequest_approve without the lines that record the actor and the time
ChangeRequest_approve_no_actor(self, user_id, notes) ==
    [self EXCEPT !.status = "approved", !.approval_notes = notes]

\* ChangeRequest.approve
ChangeRequest_approve(self, user_id, notes) ==
    [self EXCEPT !.status = "approved", !.approved_by = user_id,
                 !.approved_at = UtcNow, !.approval_notes = notes]

\* ChangeRequest_reject without the line that records the actor
ChangeRequest_reject_no_actor(self, user_id, notes) ==
    [self EXCEPT !.status = "rejected", !.approved_at = UtcNow,
                 !.approval_notes = notes]

\* ChangeRequest.reject
ChangeRequest_reject(self, user_id, notes) ==
    [self EXCEPT !.status = "rejected", !.approved_by = user_id,
                 !.approved_at = UtcNow, !.approval_notes = notes]

\* ChangeRequest.implement
ChangeRequest_implement(self, new_dso_id) ==
    [self EXCEPT !.status = "implemented", !.implemented_at = UtcNow,
                 !.new_dso_id = new_dso_id]

\* the request bodies of approve_change_request and reject_change_request
DecisionBodies == {EmptyBody, [notes |-> "n1"]}

\* change_request_allowed with superseded DSOs let through as well
change_request_allowed_superseded(row) == row.status \in {"approved", "superseded"}

\* the status check of create_change_request
change_request_allowed(row) == row.status = "approved"

\* reject_change_request_allowed with every request but a rejected one let
\* through
reject_change_request_allowed_not_rejected(row) == row.status # "rejected"

\* the status checks of approve_change_request and reject_change_request
approve_change_request_allowed(row) == row.status = "pending"
reject_change_request_allowed(row) == row.status = "pending"

\* login_required only: every user may file a change request
create_change_request(u, d) ==
    IF d \notin DsoIds
    THEN Fail("create_cr", 0, 404)
    ELSE IF ~change_request_allowed(dsos[d])
    THEN Fail("create_cr", d, 400)
    ELSE /\ change_requests' = Append(change_requests, NewChangeRequest(d))
         /\ last' = Response("create_cr", d, u, 201)
         /\ UNCHANGED <<orders, dsos, size_chart_dewasa, size_chart_anak,
                        accessories, acc_seq, qc_sheets, defect_logs, report, others>>

approve_change_request(u, c, data) ==
    IF ~require_roles(u, {"admin", "owner"})
    THEN Fail("approve_cr", 0, 403)
    ELSE IF c \notin CrIds
    THEN Fail("approve_cr", 0, 404)
    ELSE IF ~approve_change_request_allowed(change_requests[c])
    THEN Fail("approve_cr", c, 400)
    ELSE LET approved == ChangeRequest_approve(change_requests[c], u,
                                               Get(data, "notes", NoneVal))
             src == approved.dso_id
         IN /\ dsos' = Append([dsos EXCEPT ![src].status = "superseded"],
                              DSO_create_new_version(dsos[src]))
            /\ size_chart_dewasa' = Append(size_chart_dewasa, <<>>)
            /\ size_chart_anak' = Append(size_chart_anak, <<>>)
            /\ change_requests' =
                   [change_requests EXCEPT
                       ![c] = ChangeRequest_implement(approved, Len(dsos) + 1)]
            /\ last' = Response("approve_cr", c, u, 200)
            /\ UNCHANGED <<orders, accessories, acc_seq, qc_sheets, defect_logs, report, others>>

reject_change_request(u, c, data) ==
    IF ~require_roles(u, {"admin", "owner"})
    THEN Fail("reject_cr", 0, 403)
    ELSE IF c \notin CrIds
    THEN Fail("reject_cr", 0, 404)
    ELSE IF ~reject_change_request_allowed(change_requests[c])
    THEN Fail("reject_cr", c, 400)
    ELSE /\ change_requests' =
                [change_requests EXCEPT
                    ![c] = ChangeRequest_reject(change_requests[c], u,
                                                Get(data, "notes", NoneVal))]
         /\ last' = Response("reject_cr", c, u, 200)
         /\ UNCHANGED <<orders, dsos, size_chart_dewasa, size_chart_anak,
                        accessories, acc_seq, qc_sheets, defect_logs, report, others>>

\* ---------------------------------------------------------- specifications
\* the tables stay within the bounds: a request that would add a row to a
\* full table is not issued
Within(max_orders, max_dso, max_cr, max_acc) ==
    /\ Len(orders') <= max_orders
    /\ Len(dsos') <= max_dso
    /\ Len(change_requests') <= max_cr
    /\ acc_seq' <= max_acc

FlowWithin == Within(FlowMaxOrders, FlowMaxDso, FlowMaxCr, 0)
EditWithin == Within(EditMaxOrders, EditMaxDso, 0, EditMaxAcc)
VersionsWithin == Within(MaxOrders, MaxDso, MaxCr, 0)

\* ------------------------------------------------------------- production
\* api/production.py and models/production.py.  A worker log row carries its
\* own id, as rows are deleted.
TaskIds == 1..Len(production_tasks)

\* task.worker_logs
LogsOf(logs, t) == {l \in logs : l.task_id = t}

RECURSIVE SumQty(_)
SumQty(logs) ==
    IF logs = {} THEN 0
    ELSE LET l == CHOOSE x \in logs : TRUE
         IN l.qty_completed + SumQty(logs \ {l})

\* ProductionTask.update_qty_from_workers: the task afterwards, `logs` being
\* the worker logs of the task
update_qty_from_workers(self, logs) ==
    LET total == SumQty(logs)
    IN IF total >= self.qty_target
       THEN [self EXCEPT !.qty_completed = total, !.status = "completed"]
       ELSE [self EXCEPT !.qty_completed = total]

\* all(t.status == 'completed' for t in order.production_tasks.all())
AllTasksCompleted(tasks, o) ==
    \A t \in 1..Len(tasks) : tasks[t].order_id = o => tasks[t].status = "completed"

start_production_task(u, t) ==
    IF ~require_roles(u, {"admin", "owner", "admin_produksi", "qc_line"})
    THEN Fail("start_task", 0, 403)
    ELSE IF t \notin TaskIds
    THEN Fail("start_task", 0, 404)
    ELSE IF production_tasks[t].status \notin {"pending", "assigned"}
    THEN Fail("start_task", t, 400)
    ELSE IF LogsOf(worker_logs, t) = {}
    THEN Fail("start_task", t, 400)
    ELSE LET o == production_tasks[t].order_id
         IN /\ production_tasks' = [production_tasks EXCEPT ![t].status = "in_progress"]
            /\ orders' = IF orders[o].status = "draft"
                         THEN [orders EXCEPT ![o].status = "in_production"]
                         ELSE orders
            /\ last' = Response("start_task", t, u, 200)
            /\ UNCHANGED <<dsos, size_chart_dewasa, size_chart_anak, accessories,
                           acc_seq, change_requests, qc_sheets, defect_logs, report,
                           sessions, worker_logs, log_seq, inventory>>

\* the request bodies of complete_production_task
CompleteBodies == {[qty_completed |-> 1], [qty_defect |-> 0]}

complete_production_task(u, t, data) ==
    IF ~require_roles(u, {"admin", "owner", "admin_produksi"})
    THEN Fail("complete_task", 0, 403)
    ELSE IF t \notin TaskIds
    THEN Fail("complete_task", 0, 404)
    ELSE LET o == production_tasks[t].order_id
             tasks == [production_tasks EXCEPT
                          ![t].qty_completed =
                              Get(data, "qty_completed", production_tasks[t].qty_target),
                          ![t].status = "completed"]
         IN /\ production_tasks' = tasks
            /\ orders' = IF AllTasksCompleted(tasks, o)
                         THEN [orders EXCEPT ![o].status = "completed"]
                         ELSE orders
            /\ last' = Response("complete_task", t, u, 200)
            /\ UNCHANGED <<dsos, size_chart_dewasa, size_chart_anak, accessories,
                           acc_seq, change_requests, qc_sheets, defect_logs, report,
                           sessions, worker_logs, log_seq, inventory>>

\* the request bodies of add_worker_log
AddWorkerBodies == {[employee_id |-> "e1"], [notes |-> "n1"]}

add_worker_log(u, t, data) ==
    IF ~require_roles(u, {"admin", "owner", "admin_produksi"})
    THEN Fail("add_worker", 0, 403)
    ELSE IF t \notin TaskIds
    THEN Fail("add_worker", 0, 404)
    ELSE IF Get(data, "employee_id", NoneVal) = NoneVal
    THEN Fail("add_worker", t, 400)
    ELSE IF \E l \in LogsOf(worker_logs, t) : l.employee_id = data.employee_id
    THEN Fail("add_worker", t, 400)
    ELSE /\ worker_logs' = worker_logs \cup
                {[id |-> log_seq + 1, task_id |-> t,
                  employee_id |-> data.employee_id, qty_completed |-> 0]}
         /\ log_seq' = log_seq + 1
         /\ production_tasks' =
                IF production_tasks[t].status = "pending"
                THEN [production_tasks EXCEPT ![t].status = "assigned"]
                ELSE production_tasks
         /\ last' = Response("add_worker", t, u, 201)
         /\ UNCHANGED <<db, report, sessions, inventory>>

\* the request bodies of update_worker_log
UpdateWorkerBodies == {[qty_completed |-> 1], [qty_completed |-> QtyTotal]}

update_worker_log(u, id, data) ==
    IF ~require_roles(u, {"admin", "owner", "admin_produksi"})
    THEN Fail("update_worker", 0, 403)
    ELSE IF ~\E l \in worker_logs : l.id = id
    THEN Fail("update_worker", 0, 404)
    ELSE LET worker_log == CHOOSE l \in worker_logs : l.id = id
             t == worker_log.task_id
             logs == (worker_logs \ {worker_log}) \cup
                        {[worker_log EXCEPT
                            !.qty_completed = Get(data, "qty_completed", @)]}
         IN /\ worker_logs' = logs
            /\ production_tasks' =
                   [production_tasks EXCEPT
                       ![t] = update_qty_from_workers(@, LogsOf(logs, t))]
            /\ last' = Response("update_worker", id, u, 200)
            /\ UNCHANGED <<db, report, sessions, log_seq, inventory>>

delete_worker_log(u, id) ==
    IF ~require_roles(u, {"admin", "owner", "admin_produksi"})
    THEN Fail("delete_worker", 0, 403)
    ELSE IF ~\E l \in worker_logs : l.id = id
    THEN Fail("delete_worker", 0, 404)
    ELSE LET worker_log == CHOOSE l \in worker_logs : l.id = id
             t == worker_log.task_id
             logs == worker_logs \ {worker_log}
         IN /\ worker_logs' = logs
            /\ production_tasks' =
                   [production_tasks EXCEPT
                       ![t] = update_qty_from_workers(@, LogsOf(logs, t))]
            /\ last' = Response("delete_worker", id, u, 200)
            /\ UNCHANGED <<db, report, sessions, log_seq, inventory>>

\* -------------------------------------------------------------- materials
\* api/materials.py and models/material.py.  The routes require a login and
\* no role.  A request row holds its items and, as a sequence of no row or
\* one row, its QC sheet (uselist=False).
RequestIds == 1..Len(material_requests)

\* the ids of the rows of the vendors table, which the material routes
\* never write
VendorIds == {1}

\* the request bodies of create_material_request: without vendor, without
\* items, of a vendor that does not exist, and with one item
MaterialBodies ==
    { [items |-> <<[material_name |-> "m1", material_type |-> "kain",
                    qty_ordered |-> QtyOrdered]>>],
      [vendor_id |-> 1],
      [vendor_id |-> 2,
       items |-> <<[material_name |-> "m1", material_type |-> "kain",
                    qty_ordered |-> QtyOrdered]>>],
      [vendor_id |-> 1,
       items |-> <<[material_name |-> "m1", material_type |-> "kain",
                    qty_ordered |-> QtyOrdered]>>] }

\* a new MaterialRequestItem row (qty_received defaults to 0)
NewItem(item_data) ==
    [material_name |-> item_data.material_name,
     material_type |-> item_data.material_type,
     qty_ordered |-> item_data.qty_ordered, qty_received |-> 0]

create_material_request(u, data) ==
    IF "vendor_id" \notin DOMAIN data
    THEN Fail("create_material_request", 0, 400)
    ELSE IF Get(data, "items", <<>>) = <<>>
    THEN Fail("create_material_request", 0, 400)
    ELSE IF data.vendor_id \notin VendorIds
    THEN Fail("create_material_request", 0, 404)
    ELSE /\ material_requests' = Append(material_requests,
                [status |-> "requested", qc_sheet |-> <<>>,
                 items |-> [i \in 1..Len(data.items) |-> NewItem(data.items[i])]])
         /\ last' = Response("create_material_request", Len(material_requests) + 1, u, 201)
         /\ UNCHANGED <<db, report, sessions, production, materials>>

\* valid_statuses
valid_statuses == {"requested", "in_transit", "arrived", "qc_pending", "qc_passed",
                   "qc_failed", "stored", "cancelled"}

\* min_stock=10 of a material created from a request
MinStock == 10

\* Material.update_status
Material_update_status(self) ==
    [self EXCEPT !.status = IF self.stock_qty <= 0 THEN "out_of_stock"
                            ELSE IF self.stock_qty <= MinStock THEN "low_stock"
                            ELSE "active"]

\* qty_received if item.qty_received > 0 else item.qty_ordered
qty_to_store(item) == IF item.qty_received > 0 THEN item.qty_received ELSE item.qty_ordered

\* the inventory after the pass of the loop for one item: the stock of the
\* first material of the item's name and type is raised, or a material is
\* created
StoreItem(mats, item) ==
    LET found == {m \in 1..Len(mats) : /\ mats[m].name = item.material_name
                                       /\ mats[m].material_type = item.material_type}
    IN IF found # {}
       THEN LET m == CHOOSE x \in found : \A y \in found : x <= y
            IN [mats EXCEPT ![m] = Material_update_status(
                                      [@ EXCEPT !.stock_qty = @ + qty_to_store(item)])]
       ELSE Append(mats, Material_update_status(
                [name |-> item.material_name, material_type |-> item.material_type,
                 stock_qty |-> qty_to_store(item), status |-> "active"]))

RECURSIVE StoreItems(_, _)
StoreItems(mats, items) ==
    IF items = <<>> THEN mats
    ELSE StoreItems(StoreItem(mats, Head(items)), Tail(items))

\* the request bodies of update_material_status
StatusBodies == {[status |-> st] : st \in valid_statuses} \cup {[status |-> "bogus"]}

update_material_status(u, r, data) ==
    IF r \notin RequestIds
    THEN Fail("update_material_status", 0, 404)
    ELSE IF data.status \notin valid_statuses
    THEN Fail("update_material_status", r, 400)
    ELSE LET material_request == material_requests[r]
         IN /\ material_requests' = [material_requests EXCEPT ![r].status = data.status]
            /\ materials' =
                   IF /\ data.status = "stored"
                      /\ material_request.qc_sheet # <<>>
                      /\ material_request.qc_sheet[1].result # "fail"
                   THEN StoreItems(materials, material_request.items)
                   ELSE materials
            /\ last' = Response("update_material_status", r, u, 200)
            /\ UNCHANGED <<db, report, sessions, production>>

\* the request bodies of create_or_update_material_qc
QcBodies ==
    { [notes |-> "n1"],
      [result |-> "pass"],
      [result |-> "fail"],
      [result |-> "conditional_pass",
       item_quantities |-> <<[id |-> 1, qty_received |-> QtyReceived]>>] }

\* the items of request r after the loop over item_quantities; the id of an
\* item is its place in the request (one request is explored)
SetQuantities(items, data) ==
    IF "item_quantities" \notin DOMAIN data THEN items
    ELSE [i \in 1..Len(items) |->
            IF \E q \in 1..Len(data.item_quantities) : data.item_quantities[q].id = i
            THEN LET q == CHOOSE x \in 1..Len(data.item_quantities) :
                             /\ data.item_quantities[x].id = i
                             /\ \A y \in 1..Len(data.item_quantities) :
                                   data.item_quantities[y].id = i => y <= x
                 IN [items[i] EXCEPT !.qty_received = data.item_quantities[q].qty_received]
            ELSE items[i]]

create_or_update_material_qc(u, r, data) ==
    IF r \notin RequestIds
    THEN Fail("material_qc", 0, 404)
    ELSE LET result == Get(data, "result", "pending")
         IN /\ material_requests' =
                   [material_requests EXCEPT
                       ![r].qc_sheet = <<[result |-> result]>>,
                       ![r].status = IF result \in {"pass", "conditional_pass"}
                                     THEN "qc_passed"
                                     ELSE IF result = "fail" THEN "qc_failed"
                                     ELSE @,
                       ![r].items = SetQuantities(@, data)]
            /\ last' = Response("material_qc", r, u, 200)
            /\ UNCHANGED <<db, report, sessions, production, materials>>

\* the last request succeeded
Succeeded == last'.code < 400

\* SpecFlow: every handler that reads or writes a DSO's status or a change
\* request, failed requests included
NextFlow ==
    \E u \in Users :
        \/ /\ \E valid \in BOOLEAN : create_order(u, valid)
           /\ FlowWithin
        \/ /\ \E o \in 1..FlowMaxOrders : create_dso(u, o)
           /\ FlowWithin
        \/ \E d \in 1..FlowMaxDso, data \in UpdateBodies : update_dso(u, d, data)
        \/ \E d \in 1..FlowMaxDso : submit_dso_for_approval(u, d)
        \/ \E d \in 1..FlowMaxDso : approve_dso(u, d)
        \/ \E d \in 1..FlowMaxDso, data \in RejectBodies : reject_dso(u, d, data)
        \/ /\ \E d \in 1..FlowMaxDso : create_dso_new_version(u, d)
           /\ FlowWithin
        \/ /\ \E d \in 1..FlowMaxDso : create_change_request(u, d)
           /\ FlowWithin
        \/ /\ \E c \in 1..FlowMaxCr, data \in DecisionBodies :
                 approve_change_request(u, c, data)
           /\ FlowWithin
        \/ \E c \in 1..FlowMaxCr, data \in DecisionBodies :
              reject_change_request(u, c, data)

SpecFlow == Init /\ [][NextFlow]_vars

\* SpecEdit: the handlers that write a DSO's content (fields, size charts,
\* front image, accessory rows) beside those that move its status, failed
\* requests included
NextEdit ==
    \E u \in Users :
        \/ /\ \E valid \in BOOLEAN : create_order(u, valid)
           /\ EditWithin
        \/ \E d \in 1..EditMaxDso, data \in UpdateBodies : update_dso(u, d, data)
        \/ \E d \in 1..EditMaxDso, has_file, stored \in BOOLEAN :
              upload_dso_front_image(u, d, has_file, stored)
        \/ \E d \in 1..EditMaxDso : submit_dso_for_approval(u, d)
        \/ \E d \in 1..EditMaxDso : approve_dso(u, d)
        \/ \E d \in 1..EditMaxDso, data \in RejectBodies : reject_dso(u, d, data)
        \/ /\ \E d \in 1..EditMaxDso : create_dso_new_version(u, d)
           /\ EditWithin
        \/ /\ \E d \in 1..EditMaxDso, data \in AddAccessoryBodies :
                 add_dso_accessory(u, d, data)
           /\ EditWithin
        \/ \E d \in 1..EditMaxDso, a \in 1..EditMaxAcc, data \in UpdateAccessoryBodies :
              update_dso_accessory(u, d, a, data)
        \/ \E d \in 1..EditMaxDso, a \in 1..EditMaxAcc : delete_dso_accessory(u, d, a)

SpecEdit == Init /\ [][NextEdit]_vars

\* SpecVersions: the version chain of DSOs over several orders, through the
\* requests that create rows and move statuses, successful ones only; of
\* update_dso the body that publishes (the fields and size charts of a DSO
\* decide no version and no status)
NextVersions ==
    \E u \in Users :
        \/ /\ create_order(u, TRUE)
           /\ VersionsWithin
           /\ Succeeded
        \/ /\ \E o \in OrderIds : create_dso(u, o)
           /\ VersionsWithin
           /\ Succeeded
        \/ /\ \E d \in DsoIds : update_dso(u, d, [status |-> "published"])
           /\ Succeeded
        \/ /\ \E d \in DsoIds : submit_dso_for_approval(u, d)
           /\ Succeeded
        \/ /\ \E d \in DsoIds : approve_dso(u, d)
           /\ Succeeded
        \/ /\ \E d \in DsoIds, data \in RejectBodies : reject_dso(u, d, data)
           /\ Succeeded
        \/ /\ \E d \in DsoIds : create_dso_new_version(u, d)
           /\ VersionsWithin
           /\ Succeeded
        \/ /\ \E d \in DsoIds : create_change_request(u, d)
           /\ VersionsWithin
           /\ Succeeded
        \/ /\ \E c \in CrIds, data \in DecisionBodies : approve_change_request(u, c, data)
           /\ VersionsWithin
           /\ Succeeded
        \/ /\ \E c \in CrIds, data \in DecisionBodies : reject_change_request(u, c, data)
           /\ Succeeded

SpecVersions == Init /\ [][NextVersions]_vars

\* SpecRace: create_order and the two steps of create_dso, in MaxSessions
\* sessions whose steps interleave
RaceWithin == Len(orders') <= RaceMaxOrders /\ Len(dsos') <= RaceMaxDso

NextRace ==
    \/ /\ \E u \in Users, valid \in BOOLEAN : create_order(u, valid)
       /\ RaceWithin
    \/ \E s \in Sessions, u \in Users, o \in 1..RaceMaxOrders : create_dso_read(s, u, o)
    \/ /\ \E s \in Sessions : create_dso_commit(s)
       /\ RaceWithin

SpecRace == Init /\ [][NextRace]_vars

\* SpecProduction: the production routes and the approval of the DSO, on an
\* order of which all tasks but the last ProdTasksOpen were completed by
\* complete_production_task
InitProduction ==
    /\ orders = <<[status |-> "draft", dso_status |-> "not_created"]>>
    /\ dsos = <<NewDso(1, 1)>>
    /\ size_chart_dewasa = <<(<<>>)>>
    /\ size_chart_anak = <<(<<>>)>>
    /\ accessories = {}
    /\ acc_seq = 0
    /\ change_requests = <<>>
    /\ qc_sheets = OrderQcSheets(1)
    /\ defect_logs = <<>>
    /\ last = Response("none", 0, NoneVal, 200)
    /\ report = NoReport
    /\ production_tasks =
          [t \in 1..Len(Processes) |->
              IF t <= Len(Processes) - ProdTasksOpen
              THEN [NewTask(1) EXCEPT !.status = "completed", !.qty_completed = QtyTotal]
              ELSE NewTask(1)]
    /\ InitOthers

ProductionWithin == log_seq' <= ProdMaxLogs

NextProduction ==
    \E u \in Users :
        \/ \E t \in TaskIds : start_production_task(u, t)
        \/ \E t \in TaskIds, data \in CompleteBodies : complete_production_task(u, t, data)
        \/ /\ \E t \in TaskIds, data \in AddWorkerBodies : add_worker_log(u, t, data)
           /\ ProductionWithin
        \/ \E id \in 1..ProdMaxLogs, data \in UpdateWorkerBodies :
              update_worker_log(u, id, data)
        \/ \E id \in 1..ProdMaxLogs : delete_worker_log(u, id)
        \/ \E d \in DsoIds : submit_dso_for_approval(u, d)
        \/ \E d \in DsoIds : approve_dso(u, d)

SpecProduction == InitProduction /\ [][NextProduction]_vars

\* SpecMaterials: the material request routes over an empty inventory
MaterialsWithin ==
    /\ Len(material_requests') <= MatMaxRequests
    /\ \A m \in 1..Len(materials') : materials'[m].stock_qty <= MatMaxStock

NextMaterials ==
    \E u \in Users :
        \/ /\ \E data \in MaterialBodies : create_material_request(u, data)
           /\ MaterialsWithin
        \/ /\ \E r \in 1..MatMaxRequests, data \in StatusBodies :
                 update_material_status(u, r, data)
           /\ MaterialsWithin
        \/ \E r \in 1..MatMaxRequests, data \in QcBodies :
              create_or_update_material_qc(u, r, data)

SpecMaterials == Init /\ [][NextMaterials]_vars

\* SpecChangeRequest: the methods approve, reject and implement of one
\* ChangeRequest object, called directly and in any order.  The methods are
\* plain assignments (models/audit.py 117-135): they read no status and raise
\* nothing, so every call returns, logged here with code 200.  The object is
\* a pending request of the state that create_order, submit, approve and
\* MethodCrs calls of create_change_request lead to.
InitChangeRequest ==
    /\ orders = <<[status |-> "in_production", dso_status |-> "created"]>>
    /\ dsos = <<[NewDso(1, 1) EXCEPT !.status = "approved", !.approved_by = "admin",
                                      !.approved_at = UtcNow]>>
    /\ size_chart_dewasa = <<(<<>>)>>
    /\ size_chart_anak = <<(<<>>)>>
    /\ accessories = {}
    /\ acc_seq = 0
    /\ change_requests = [c \in 1..MethodCrs |-> NewChangeRequest(1)]
    /\ qc_sheets = OrderQcSheets(1)
    /\ defect_logs = <<>>
    /\ last = Response("none", 0, NoneVal, 200)
    /\ report = NoReport
    /\ production_tasks = OrderTasks(1)
    /\ InitOthers

\* the notes and the new_dso_id arguments of the calls
MethodNotes == {NoneVal, "n1"}
MethodNewDsoIds == {2, 3}

\* cr.approve(user_id, notes), cr.reject(user_id, notes), cr.implement(new_dso_id)
call_approve(c, user_id, notes) ==
    /\ change_requests' = [change_requests EXCEPT
                              ![c] = ChangeRequest_approve(@, user_id, notes)]
    /\ last' = Response("ChangeRequest.approve", c, user_id, 200)
    /\ UNCHANGED <<orders, dsos, size_chart_dewasa, size_chart_anak, accessories, acc_seq, qc_sheets, defect_logs, report, others>>

call_reject(c, user_id, notes) ==
    /\ change_requests' = [change_requests EXCEPT
                              ![c] = ChangeRequest_reject(@, user_id, notes)]
    /\ last' = Response("ChangeRequest.reject", c, user_id, 200)
    /\ UNCHANGED <<orders, dsos, size_chart_dewasa, size_chart_anak, accessories, acc_seq, qc_sheets, defect_logs, report, others>>

call_implement(c, new_dso_id) ==
    /\ change_requests' = [change_requests EXCEPT
                              ![c] = ChangeRequest_implement(@, new_dso_id)]
    /\ last' = Response("ChangeRequest.implement", c, NoneVal, 200)
    /\ UNCHANGED <<orders, dsos, size_chart_dewasa, size_chart_anak, accessories, acc_seq, qc_sheets, defect_logs, report, others>>

NextChangeRequest ==
    \/ \E c \in CrIds, u \in Users, notes \in MethodNotes : call_approve(c, u, notes)
    \/ \E c \in CrIds, u \in Users, notes \in MethodNotes : call_reject(c, u, notes)
    \/ \E c \in CrIds, new_dso_id \in MethodNewDsoIds : call_implement(c, new_dso_id)

SpecChangeRequest == InitChangeRequest /\ [][NextChangeRequest]_vars

\* ------------------------------------------------------------ QC analytics
\* services/qc_analytics.py.  The functions read the tables qc_sheets and
\* defect_logs and return a dict; they write nothing.  Numbers with decimals
\* are kept as integers: a value rounded to two places in hundredths
\* (fpy_percentage 100.0 is 10000), a value rounded to one place in tenths
\* (quality_score 98.5 is 985), an unrounded quotient as <<numerator,
\* denominator>>.

\* a day before the 30-day window of Today
OldDay == 5

\* the `days` of the window: start_date = now - days, end_date = now
PeriodDays == {30, 60}

\* Python's round(numerator / denominator), to the nearest integer and to the
\* even one of two equally near (numerator >= 0, denominator > 0)
Round(numerator, denominator) ==
    LET q == numerator \div denominator
        r == numerator % denominator
    IN IF 2 * r < denominator THEN q
       ELSE IF 2 * r > denominator THEN q + 1
       ELSE IF q % 2 = 0 THEN q ELSE q + 1

RECURSIVE SumSeq(_)
SumSeq(s) == IF Len(s) = 0 THEN 0 ELSE Head(s) + SumSeq(Tail(s))

\* SQL SUM: NULL (None in Python, JsonNull here) over no row
SqlSum(s) == IF Len(s) = 0 THEN JsonNull ELSE SumSeq(s)

\* Coalesce0 with the COALESCE left out: the value as it is
Coalesce0_raw(value) == value

\* COALESCE(elem->>'key', '0') cast to INTEGER: a missing key or a JSON null
\* counts as 0
Coalesce0(value) == IF value = JsonNull THEN 0 ELSE value

\* the column `f` of the rows
Column(rows, f) == [i \in 1..Len(rows) |-> rows[i][f]]

\* Between without the lower end of the window
Between_until(rows, start_date, end_date) ==
    SelectSeq(rows, LAMBDA r : r.created_at <= end_date)

\* the rows with start_date <= created_at <= end_date
Between(rows, start_date, end_date) ==
    SelectSeq(rows, LAMBDA r : r.created_at >= start_date /\ r.created_at <= end_date)

\* QCAnalyticsService.calculate_fpy
calculate_fpy(start_date, end_date) ==
    LET rows == Between(qc_sheets, start_date, end_date)
        total_inspected == Or0(SqlSum(Column(rows, "qty_inspected")))
        total_passed == Or0(SqlSum(Column(rows, "qty_passed")))
        total_failed == Or0(SqlSum(Column(rows, "qty_failed")))
    IN IF total_inspected = 0
       THEN [fn |-> "calculate_fpy", fpy_percentage |-> 10000,
             total_inspected |-> 0, total_passed |-> 0, total_failed |-> 0,
             period_start |-> start_date, period_end |-> end_date]
       ELSE [fn |-> "calculate_fpy",
             fpy_percentage |-> Round(100 * 100 * total_passed, total_inspected),
             total_inspected |-> total_inspected, total_passed |-> total_passed,
             total_failed |-> total_failed,
             period_start |-> start_date, period_end |-> end_date]

\* FROM qc_sheet qs, json_array_elements(qs.checklist_json) elem WHERE ... AND
\* qs.checklist_json IS NOT NULL: the checklist items of the rows, in one
\* sequence
RECURSIVE ChecklistItems(_)
ChecklistItems(rows) ==
    IF Len(rows) = 0 THEN <<>>
    ELSE (IF Len(Head(rows).checklist_json) = 0 THEN <<>>
          ELSE Head(rows).checklist_json[1]) \o ChecklistItems(Tail(rows))

\* WEIGHTS with the weights of resolution and consistency exchanged
WEIGHTS_exchanged ==
    [pass_rate |-> 4, ng_rate |-> 3, resolution_rate |-> 1, consistency |-> 2]

\* QCAnalyticsService.WEIGHTS, in tenths
WEIGHTS == [pass_rate |-> 4, ng_rate |-> 3, resolution_rate |-> 2, consistency |-> 1]

\* the statuses that count as resolved
ResolvedStatuses == {"resolved", "closed"}

\* the grade of a quality score in tenths
Grade(quality_score) ==
    IF quality_score >= 900 THEN "A"
    ELSE IF quality_score >= 800 THEN "B"
    ELSE IF quality_score >= 700 THEN "C"
    ELSE IF quality_score >= 600 THEN "D"
    ELSE "F"

\* QCAnalyticsService.calculate_quality_score; of the locals, ng_rate is kept
\* in the result beside what the function returns
calculate_quality_score(start_date, end_date) ==
    LET fpy_score == calculate_fpy(start_date, end_date).fpy_percentage
        items == ChecklistItems(Between(qc_sheets, start_date, end_date))
        total_checked ==
            Or0(SqlSum([i \in 1..Len(items) |-> Coalesce0(items[i].qty_checked)]))
        total_ng ==
            Or0(SqlSum([i \in 1..Len(items) |-> Coalesce0(items[i].qty_ng)]))
        ng_rate == IF total_checked > 0 THEN <<100 * total_ng, total_checked>>
                   ELSE <<0, 1>>
        \* max(0, 100 - ng_rate * 10)
        ng_score == IF 100 * ng_rate[2] - 10 * ng_rate[1] > 0
                    THEN <<100 * ng_rate[2] - 10 * ng_rate[1], ng_rate[2]>>
                    ELSE <<0, 1>>
        defects == Between(defect_logs, start_date, end_date)
        total_defects == Len(defects)
        resolved_defects ==
            Or0(SqlSum([i \in 1..Len(defects) |->
                          IF defects[i].status \in ResolvedStatuses THEN 1 ELSE 0]))
        resolution_score == IF total_defects > 0
                            THEN <<100 * resolved_defects, total_defects>>
                            ELSE <<100, 1>>
        consistency_score == 85
        \* ten times the weighted sum, as a quotient
        den == 100 * ng_score[2] * resolution_score[2]
        num == WEIGHTS.pass_rate * fpy_score * ng_score[2] * resolution_score[2]
               + WEIGHTS.ng_rate * 100 * ng_score[1] * resolution_score[2]
               + WEIGHTS.resolution_rate * 100 * resolution_score[1] * ng_score[2]
               + WEIGHTS.consistency * 100 * consistency_score
                     * ng_score[2] * resolution_score[2]
        quality_score == Round(num, den)
    IN [fn |-> "calculate_quality_score",
        quality_score |-> quality_score,
        grade |-> Grade(quality_score),
        components |->
            [fpy_score |-> Round(fpy_score, 10),
             ng_score |-> Round(10 * ng_score[1], ng_score[2]),
             resolution_score |-> Round(10 * resolution_score[1], resolution_score[2]),
             consistency_score |-> 10 * consistency_score],
        ng_rate |-> ng_rate,
        period_start |-> start_date, period_end |-> end_date]

\* .limit(10)
ParetoLimit == 10

\* the defect rows get_defect_pareto reads: created_at >= start_date
ParetoRows(days) == SelectSeq(defect_logs, LAMBDA r : r.created_at >= Today - days)

\* func.sum(DefectLog.qty_defect) of one defect type
TotalQty(days, defect_type) ==
    SqlSum(Column(SelectSeq(ParetoRows(days), LAMBDA r : r.defect_type = defect_type),
                  "qty_defect"))

\* Results without the ORDER BY: the types in any order
Results_unordered(days) ==
    LET rows == ParetoRows(days)
        types == {rows[i].defect_type : i \in 1..Len(rows)}
        n == Cardinality(types)
        m == IF n < ParetoLimit THEN n ELSE ParetoLimit
    IN {[i \in 1..m |-> <<o[i], TotalQty(days, o[i])>>] :
           o \in {s \in [1..n -> types] : \A i, j \in 1..n : i # j => s[i] # s[j]}}

\* the results the query can return: one row <<defect_type, total_qty>> for
\* each type (GROUP BY), in an order of descending total_qty (ORDER BY ...
\* DESC, which leaves the order of equal totals open), the first ParetoLimit
Results(days) ==
    LET rows == ParetoRows(days)
        types == {rows[i].defect_type : i \in 1..Len(rows)}
        n == Cardinality(types)
        m == IF n < ParetoLimit THEN n ELSE ParetoLimit
    IN {[i \in 1..m |-> <<o[i], TotalQty(days, o[i])>>] :
           o \in {s \in [1..n -> types] :
                     /\ \A i, j \in 1..n : i # j => s[i] # s[j]
                     /\ \A i, j \in 1..n :
                           i < j => TotalQty(days, s[i]) >= TotalQty(days, s[j])}}

\* QCAnalyticsService.get_defect_pareto, from the results of its query
get_defect_pareto(days, results) ==
    LET total_defects == SumSeq([i \in 1..Len(results) |-> Or0(results[i][2])])
        cumulative_qty(i) == SumSeq([k \in 1..i |-> Or0(results[k][2])])
    IN [fn |-> "get_defect_pareto",
        total_defects |-> total_defects,
        pareto_data |->
            [i \in 1..Len(results) |->
                [type |-> results[i][1],
                 count |-> Or0(results[i][2]),
                 cumulative_percentage |->
                     IF total_defects > 0
                     THEN Round(10 * 100 * cumulative_qty(i), total_defects)
                     ELSE 0]],
        period_days |-> days]

\* the `period` of generate_summary_report: the two the export route passes
\* and one that takes the else branch
Periods == {"week", "month", "year"}

\* timedelta(days=7) or timedelta(days=30): the length of both windows
WindowDays(period) == IF period = "month" THEN 30 ELSE 7

\* the statuses that count as open
OpenStatuses == {"open", "in_progress"}

\* 'up' if change > 0 else 'down' if change < 0 else 'stable'
Trend(change) ==
    IF change > 0 THEN "up" ELSE IF change < 0 THEN "down" ELSE "stable"

\* QCAnalyticsService.generate_summary_report: the periods and the summary.
\* fpy and fpy_change are in hundredths, quality_score and score_change in
\* tenths; both differences are of values already rounded to that place, so
\* round() leaves them as they are.  process_comparison and top_issues, which
\* come from get_process_comparison and get_parameter_trends, are left out.
generate_summary_report(period) ==
    LET end_date == Today
        start_date == end_date - WindowDays(period)
        prev_start == start_date - WindowDays(period)
        prev_end == start_date
        current_fpy == calculate_fpy(start_date, end_date)
        current_score == calculate_quality_score(start_date, end_date)
        prev_fpy == calculate_fpy(prev_start, prev_end)
        prev_score == calculate_quality_score(prev_start, prev_end)
        fpy_change == current_fpy.fpy_percentage - prev_fpy.fpy_percentage
        score_change == current_score.quality_score - prev_score.quality_score
        defects == Between(defect_logs, start_date, end_date)
        total_defects == Len(defects)
        open_defects ==
            Or0(SqlSum([i \in 1..Len(defects) |->
                          IF defects[i].status \in OpenStatuses THEN 1 ELSE 0]))
    IN [fn |-> "generate_summary_report",
        period |-> period,
        period_start |-> start_date,
        period_end |-> end_date,
        summary |->
            [fpy |-> current_fpy.fpy_percentage,
             fpy_change |-> fpy_change,
             fpy_trend |-> Trend(fpy_change),
             quality_score |-> current_score.quality_score,
             quality_grade |-> current_score.grade,
             score_change |-> score_change,
             score_trend |-> Trend(score_change),
             total_inspected |-> current_fpy.total_inspected,
             total_passed |-> current_fpy.total_passed,
             total_failed |-> current_fpy.total_failed,
             total_defects |-> total_defects,
             open_defects |-> open_defects]]

\* the calls
call_calculate_fpy(days) ==
    /\ report' = calculate_fpy(Today - days, Today)
    /\ last' = Response("calculate_fpy", 0, NoneVal, 200)
    /\ UNCHANGED <<db, others>>

call_calculate_quality_score(days) ==
    /\ report' = calculate_quality_score(Today - days, Today)
    /\ last' = Response("calculate_quality_score", 0, NoneVal, 200)
    /\ UNCHANGED <<db, others>>

call_get_defect_pareto(days) ==
    /\ \E results \in Results(days) : report' = get_defect_pareto(days, results)
    /\ last' = Response("get_defect_pareto", 0, NoneVal, 200)
    /\ UNCHANGED <<db, others>>

call_generate_summary_report(period) ==
    /\ report' = generate_summary_report(period)
    /\ last' = Response("generate_summary_report", 0, NoneVal, 200)
    /\ UNCHANGED <<db, others>>

NextAnalytics ==
    \E days \in PeriodDays :
        \/ call_calculate_fpy(days)
        \/ call_calculate_quality_score(days)
        \/ call_get_defect_pareto(days)

\* the sequences of at most n elements of S
BoundedSeq(S, n) == UNION {[1..k -> S] : k \in 0..n}

\* the days on which the rows of the analytics specifications were created
Days == {OldDay, Today}

\* the checklist column of an inspection: NULL, an empty array, the items
\* (100, 5) and (50, 0), and an item without qty_checked
Checklists ==
    { <<>>,
      << <<>> >>,
      << <<[qty_checked |-> 100, qty_ng |-> 5], [qty_checked |-> 50, qty_ng |-> 0]>> >>,
      << <<[qty_checked |-> JsonNull, qty_ng |-> 1]>> >> }

\* qty_inspected, qty_passed, qty_failed of an inspection
SheetQuantities == {<<0, 0, 0>>, <<0, 1, 0>>, <<3, 2, 1>>}

\* the QCSheet rows create_inspection adds for task 1 of order 1 (the columns
\* come from the request body unchecked)
InspectionRows ==
    {[NewQcSheet(1, 1) EXCEPT !.checklist_json = c, !.qty_inspected = q[1],
                              !.qty_passed = q[2], !.qty_failed = q[3],
                              !.created_at = d] :
        c \in Checklists, q \in SheetQuantities, d \in Days}

\* a new DefectLog row of log_defect (models/qc.py: status 'open')
NewDefectLog(qc_sheet_id, defect_type, qty_defect) ==
    [qc_sheet_id |-> qc_sheet_id, defect_type |-> defect_type,
     qty_defect |-> qty_defect, status |-> "open", created_at |-> Today]

\* the database after create_order on day `day`, with the given inspection
\* sheets and defect rows added since
AnalyticsDb(day, sheets, defects) ==
    /\ orders = <<[status |-> "draft", dso_status |-> "not_created"]>>
    /\ dsos = <<NewDso(1, 1)>>
    /\ size_chart_dewasa = <<(<<>>)>>
    /\ size_chart_anak = <<(<<>>)>>
    /\ accessories = {}
    /\ acc_seq = 0
    /\ change_requests = <<>>
    /\ qc_sheets = [i \in 1..Len(Processes) |->
                       [OrderQcSheets(1)[i] EXCEPT !.created_at = day]] \o sheets
    /\ defect_logs = defects
    /\ last = Response("none", 0, NoneVal, 200)
    /\ report = NoReport
    /\ production_tasks = OrderTasks(1)
    /\ InitOthers

\* SpecQuality: calculate_fpy and calculate_quality_score (and the Pareto) over
\* an empty database, or over an order's QC sheets with inspections and with
\* defects open or resolved
QualityDefectRows ==
    {[NewDefectLog(1, "t1", 1) EXCEPT !.status = s, !.created_at = d] :
        s \in {"open", "resolved"}, d \in Days}

InitQuality ==
    \/ Init
    \/ \E day \in Days, sheets \in BoundedSeq(InspectionRows, QcMaxSheets),
          defects \in BoundedSeq(QualityDefectRows, QcMaxDefects) :
          AnalyticsDb(day, sheets, defects)

SpecQuality == InitQuality /\ [][NextAnalytics]_vars

\* SpecPareto: get_defect_pareto (and the other two calls) over defect rows of
\* two types with quantities 0, 1 and 2
ParetoDefectRows ==
    {[NewDefectLog(1, ty, q) EXCEPT !.created_at = d] :
        ty \in {"t1", "t2"}, q \in 0..2, d \in Days}

InitPareto ==
    \/ Init
    \/ \E defects \in BoundedSeq(ParetoDefectRows, ParetoMaxDefects) :
          AnalyticsDb(Today, <<>>, defects)

SpecPareto == InitPareto /\ [][NextAnalytics]_vars

\* SpecSummary: generate_summary_report (and calculate_fpy and
\* calculate_quality_score) over inspection sheets created at the start of
\* the previous week, at the instant the current week starts, within the
\* week and now, and a defect row open or resolved
SummaryDays == {Today - 2 * WindowDays("week"), Today - WindowDays("week"),
                Today - 3, Today}

\* qty_inspected, qty_passed, qty_failed of an inspection: yields of 33.33,
\* 33.34 and 100 percent, and more passed than inspected (create_inspection
\* stores what the body holds)
SummaryQuantities == {<<3, 1, 2>>, <<5000, 1667, 3333>>, <<3, 3, 0>>, <<1, 3, 0>>}

\* the checklist column: NULL, or an item with more NG than checked
SummaryChecklists == { <<>>, << <<[qty_checked |-> 10, qty_ng |-> 20]>> >> }

SummaryInspectionRows ==
    {[NewQcSheet(1, 1) EXCEPT !.checklist_json = c, !.qty_inspected = q[1],
                              !.qty_passed = q[2], !.qty_failed = q[3],
                              !.created_at = d] :
        c \in SummaryChecklists, q \in SummaryQuantities, d \in SummaryDays}

SummaryDefectRows ==
    {[NewDefectLog(1, "t1", 1) EXCEPT !.status = st, !.created_at = Today - 3] :
        st \in {"open", "resolved"}}

InitSummary ==
    \E sheets \in BoundedSeq(SummaryInspectionRows, SummaryMaxSheets),
       defects \in BoundedSeq(SummaryDefectRows, SummaryMaxDefects) :
       AnalyticsDb(Today - 3, sheets, defects)

NextSummary ==
    \/ \E period \in Periods : call_generate_summary_report(period)
    \/ \E days \in PeriodDays : call_calculate_fpy(days)
    \/ \E days \in PeriodDays : call_calculate_quality_score(days)

SpecSummary == InitSummary /\ [][NextSummary]_vars

\* =================================================================== claims
\* the size charts and accessory rows of DSO d
Charts(d) == <<size_chart_dewasa[d], size_chart_anak[d]>>
AccessoriesOf(d) == {r \in accessories : r.dso_id = d}

\* the DSO rows of order o
DsosOf(o) == {d \in DsoIds : dsos[d].order_id = o}

\* C1 (SpecEdit): an update_dso request answered 200 addressed a DSO that was
\* draft or rejected, so that on a DSO in any other status (approved and
\* superseded in particular) it is answered with an error; and an update_dso
\* request answered with an error leaves the whole database, hence the DSO's
\* fields, size charts and status, as it was.
C1_UpdateLockedFails ==
    [][ last'.op = "update_dso" =>
          /\ last'.code = 200 => dsos[last'.id].status \in {"draft", "rejected"}
          /\ last'.code = 400 => dsos[last'.id].status \notin {"draft", "rejected"}
          /\ last'.code # 200 => /\ last'.code >= 400
                                 /\ dsos' = dsos
                                 /\ size_chart_dewasa' = size_chart_dewasa
                                 /\ size_chart_anak' = size_chart_anak
                                 /\ orders' = orders
                                 /\ accessories' = accessories ]_vars

\* C1 witness: update_dso was refused on a superseded DSO that had been edited
\* and approved before.
C1_Witness ==
    /\ last.op = "update_dso" /\ last.code = 400
    /\ dsos[last.id].status = "superseded"
    /\ dsos[last.id].bahan = "t1"
    /\ dsos[last.id].approved_by = "admin"

\* C2 (SpecFlow): a DSO's status becomes approved only by the approve handler
\* acting on a DSO that is pending_approval.
C2_ApprovedOnlyByApprove ==
    [][ \A d \in DsoIds :
          (dsos[d].status # "approved" /\ dsos'[d].status = "approved") =>
              (last'.op = "approve" /\ dsos[d].status = "pending_approval") ]_vars

\* C3 (SpecVersions): every order has at most one DSO that is draft or rejected.
C3_AtMostOneEditable ==
    \A o \in OrderIds :
        Cardinality({d \in DsosOf(o) : dsos[d].status \in {"draft", "rejected"}}) <= 1

\* C4 (SpecVersions): no two DSO rows of one order carry the same version,
\* versions start at 1, and a row that is added has a version greater than
\* every version the order had.
C4_VersionIdentifies ==
    [][ /\ \A d \in 1..Len(dsos') : dsos'[d].version >= 1
        /\ \A d, e \in 1..Len(dsos') :
              (d # e /\ dsos'[d].order_id = dsos'[e].order_id)
                  => dsos'[d].version # dsos'[e].version
        /\ \A d \in (1..Len(dsos')) \ DsoIds : \A e \in DsoIds :
              dsos[e].order_id = dsos'[d].order_id
                  => dsos'[d].version > dsos[e].version ]_vars

\* C5 (SpecVersions): when new-version is called on a source DSO right after a
\* new-version call on the same source, the row the second call adds has a
\* version greater than the row the first call added, and the source, set to
\* superseded by the first call, is superseded still.
C5_TwiceStrictlyIncreasing ==
    [][ ( /\ last.op = "new_version" /\ last.code = 201
          /\ last'.op = "new_version" /\ last'.code = 201
          /\ last'.id = last.id
          /\ Len(dsos') = Len(dsos) + 1 )
        => /\ dsos'[Len(dsos')].version > dsos[Len(dsos)].version
           /\ dsos[last.id].status = "superseded"
           /\ dsos'[last.id].status = "superseded" ]_vars

\* C6 (SpecFlow): approval is irreversible: in every step an approved DSO
\* stays approved or becomes superseded, and a superseded DSO stays
\* superseded.
C6_ApprovalIrreversible ==
    [][ \A d \in DsoIds :
          /\ dsos[d].status = "approved"
                => dsos'[d].status \in {"approved", "superseded"}
          /\ dsos[d].status = "superseded"
                => dsos'[d].status = "superseded" ]_vars

\* C6 witness: a DSO approved by the approve handler was superseded by a
\* new-version request.
C6_Witness ==
    /\ last.op = "new_version" /\ last.code = 201
    /\ dsos[last.id].status = "superseded"
    /\ dsos[last.id].approved_by = "admin"
    /\ dsos[last.id].rejection_reason = NoneVal

\* C7 (SpecEdit): once a DSO is approved or superseded no request changes its
\* content: its spec fields, its front image URL, its size charts and its set
\* of accessory rows.
C7_ImmutableOnceApproved ==
    [][ \A d \in DsoIds :
          dsos[d].status \in {"approved", "superseded"} =>
              /\ dsos'[d].bahan = dsos[d].bahan
              /\ dsos'[d].gambar_depan_url = dsos[d].gambar_depan_url
              /\ size_chart_dewasa'[d] = size_chart_dewasa[d]
              /\ size_chart_anak'[d] = size_chart_anak[d]
              /\ {r \in accessories' : r.dso_id = d} = AccessoriesOf(d) ]_vars

\* the DSO that a successful new-version or change-request approval was
\* applied to
VersionSource(l) == IF l.op = "approve_cr" THEN change_requests[l.id].dso_id ELSE l.id

\* C8 (SpecFlow): create_new_version applied to a DSO at version n (by
\* new-version or by the approval of a change request) adds exactly one DSO
\* row, of the same order, with version n+1 and status draft, sets the source
\* row's status to superseded and leaves the source's approver and approval
\* time, and every other DSO row, as they were.
C8_NewVersionEffect ==
    [][ (last'.op \in {"new_version", "approve_cr"} /\ last'.code < 400) =>
          LET src == VersionSource(last')
              new == Len(dsos) + 1
          IN /\ Len(dsos') = new
             /\ dsos'[new].order_id = dsos[src].order_id
             /\ dsos'[new].version = dsos[src].version + 1
             /\ dsos'[new].status = "draft"
             /\ dsos'[src] = [dsos[src] EXCEPT !.status = "superseded"]
             /\ \A d \in DsoIds \ {src} : dsos'[d] = dsos[d] ]_vars

\* C8 witness: the scenario draft -> submit -> approve -> new-version: v1 is
\* superseded with approver and approval time set, v2 is a draft.
C8_Witness ==
    /\ last.op = "new_version" /\ last.code = 201
    /\ dsos[last.id].version = 1
    /\ dsos[last.id].status = "superseded"
    /\ dsos[last.id].approved_by = "admin"
    /\ dsos[last.id].approved_at = UtcNow
    /\ dsos[last.id].rejection_reason = NoneVal
    /\ dsos[Len(dsos)].order_id = dsos[last.id].order_id
    /\ dsos[Len(dsos)].version = 2
    /\ dsos[Len(dsos)].status = "draft"

\* C9 (SpecFlow): a create_change_request call answered 201 addressed a DSO whose
\* status was approved and added exactly one change request, pending and
\* referencing that DSO; a call on a DSO in any other status is answered with
\* an error, and a call answered with an error adds no change request.
C9_ChangeRequestNeedsApproved ==
    [][ last'.op = "create_cr" =>
          /\ last'.code = 201 =>
                /\ dsos[last'.id].status = "approved"
                /\ Len(change_requests') = Len(change_requests) + 1
                /\ change_requests'[Len(change_requests')].status = "pending"
                /\ change_requests'[Len(change_requests')].dso_id = last'.id
                /\ \A c \in CrIds : change_requests'[c] = change_requests[c]
          /\ last'.code = 400 => dsos[last'.id].status # "approved"
          /\ last'.code # 201 => /\ last'.code >= 400
                                 /\ change_requests' = change_requests
                                 /\ dsos' = dsos ]_vars

\* C9 witness: a change request against a superseded DSO was refused while a
\* change request exists.
C9_Witness ==
    /\ last.op = "create_cr" /\ last.code = 400
    /\ dsos[last.id].status = "superseded"
    /\ Len(change_requests) >= 1

C11_ImplementNeedsApproved ==
    [][ last'.op = "ChangeRequest.implement" =>
          LET before == change_requests[last'.id]
              after == change_requests'[last'.id]
          IN IF before.status = "approved"
             THEN /\ after.status = "implemented"
                  /\ after.new_dso_id \in MethodNewDsoIds
             ELSE /\ last'.code >= 400
                  /\ after.status = before.status
                  /\ after.implemented_at = before.implemented_at
                  /\ after.new_dso_id = before.new_dso_id ]_vars

\* C12 (SpecVersions): every change request whose status is implemented has
\* approved_by and approved_at set and a new_dso_id that names a DSO of the
\* order of its source DSO with a version greater than the source's; and the
\* status of a change request changes only away from pending, never back to
\* it, so that a request is in each status at most once.
C12_ImplementedWasApproved ==
    [][ /\ \A c \in 1..Len(change_requests') :
              LET cr == change_requests'[c]
              IN cr.status = "implemented" =>
                    /\ cr.approved_by # NoneVal
                    /\ cr.approved_at # NoneVal
                    /\ cr.implemented_at # NoneVal
                    /\ cr.new_dso_id \in 1..Len(dsos')
                    /\ dsos'[cr.new_dso_id].order_id = dsos'[cr.dso_id].order_id
                    /\ dsos'[cr.new_dso_id].version > dsos'[cr.dso_id].version
        /\ \A c \in CrIds :
              change_requests'[c].status # change_requests[c].status =>
                    /\ change_requests[c].status = "pending"
                    /\ change_requests'[c].status \in {"rejected", "implemented"} ]_vars

\* C12 witness: a change request against the DSO of the second order was
\* implemented: approved by admin, new_dso_id naming version 2 of that order.
C12_Witness ==
    \E c \in CrIds :
        /\ change_requests[c].status = "implemented"
        /\ change_requests[c].approved_by = "admin"
        /\ change_requests[c].approved_at = UtcNow
        /\ dsos[change_requests[c].dso_id].order_id = 2
        /\ dsos[change_requests[c].dso_id].status = "superseded"
        /\ dsos[change_requests[c].new_dso_id].order_id = 2
        /\ dsos[change_requests[c].new_dso_id].version = 2

\* C13 (SpecFlow): the status of a change request moves only from pending to
\* rejected, by reject, or from pending through approved to implemented, by
\* the approve request (ChangeRequest.approve, then ChangeRequest.implement on
\* its result); a rejected or implemented request keeps its status whatever
\* is requested, and approve or reject addressed to a request that is no
\* longer pending is answered 400 and changes nothing.
C13_OneWay ==
    [][ /\ \A c \in CrIds :
              LET before == change_requests[c]
                  after == change_requests'[c]
              IN /\ before.status \in {"rejected", "implemented"} => after = before
                 /\ after.status # before.status =>
                       /\ before.status = "pending"
                       /\ last'.id = c
                       /\ \/ /\ last'.op = "reject_cr"
                             /\ after.status = "rejected"
                          \/ /\ last'.op = "approve_cr"
                             /\ LET approved == ChangeRequest_approve(before, last'.user,
                                                                      after.approval_notes)
                                IN /\ approved.status = "approved"
                                   /\ after = ChangeRequest_implement(approved, after.new_dso_id)
                                   /\ after.status = "implemented"
        /\ \A c \in CrIds :
              ( /\ last'.op \in {"approve_cr", "reject_cr"}
                /\ last'.id = c
                /\ change_requests[c].status # "pending" )
              => /\ last'.code = 400
                 /\ change_requests' = change_requests
                 /\ dsos' = dsos ]_vars

\* C13 witness: after the approve request that implemented a change request,
\* creating DSO row 2, a second approve by the same admin was answered 400 and
\* no further DSO row exists.
C13_Witness ==
    /\ last.op = "approve_cr" /\ last.code = 400
    /\ change_requests[last.id].status = "implemented"
    /\ change_requests[last.id].new_dso_id = 2
    /\ change_requests[last.id].implemented_at = UtcNow
    /\ Len(dsos) = 2

\* C14 (SpecQuality): when the qty_inspected of the QC sheets in the window
\* sum to zero, the window holding no sheet included, calculate_fpy returns
\* fpy_percentage 100.0 with total_inspected, total_passed and total_failed 0.
C14_FpyNothingInspected ==
    report.fn = "calculate_fpy" =>
        LET rows == SelectSeq(qc_sheets, LAMBDA r : /\ r.created_at >= report.period_start
                                                    /\ r.created_at <= report.period_end)
        IN SumSeq([i \in 1..Len(rows) |-> rows[i].qty_inspected]) = 0 =>
              /\ report.fpy_percentage = 10000
              /\ report.total_inspected = 0
              /\ report.total_passed = 0
              /\ report.total_failed = 0

\* C14 witness: calculate_fpy over the 30 days returned 100.0 and zero totals
\* although the window holds sheets, one of them with qty_passed 1 and
\* qty_inspected 0, and an older sheet has units inspected.
C14_Witness ==
    /\ last.op = "calculate_fpy"
    /\ report.period_start = Today - 30
    /\ report.fpy_percentage = 10000
    /\ report.total_passed = 0
    /\ \E i \in 1..Len(qc_sheets) : /\ qc_sheets[i].created_at = Today
                                    /\ qc_sheets[i].qty_passed = 1
    /\ \E i \in 1..Len(qc_sheets) : /\ qc_sheets[i].created_at = OldDay
                                    /\ qc_sheets[i].qty_inspected = 3

\* C15 (SpecQuality): with no QC sheet and no defect row in the window,
\* calculate_quality_score returns the component scores 100, 100, 100 and 85,
\* quality_score 98.5 and grade A.
C15_EmptyPeriodScore ==
    ( /\ report.fn = "calculate_quality_score"
      /\ \A i \in 1..Len(qc_sheets) :
            ~ ( /\ qc_sheets[i].created_at >= report.period_start
                /\ qc_sheets[i].created_at <= report.period_end )
      /\ \A i \in 1..Len(defect_logs) :
            ~ ( /\ defect_logs[i].created_at >= report.period_start
                /\ defect_logs[i].created_at <= report.period_end ) )
    => /\ report.components = [fpy_score |-> 1000, ng_score |-> 1000,
                               resolution_score |-> 1000, consistency_score |-> 850]
       /\ report.quality_score = 985
       /\ report.grade = "A"

\* C15 witness: the score 98.5 over a 30-day window that is empty while the
\* database holds older inspections with units failed and an older open defect.
C15_Witness ==
    /\ last.op = "calculate_quality_score"
    /\ report.period_start = Today - 30
    /\ report.quality_score = 985
    /\ \A i \in 1..Len(qc_sheets) : qc_sheets[i].created_at = OldDay
    /\ \E i \in 1..Len(qc_sheets) : qc_sheets[i].qty_failed = 1
    /\ \E i \in 1..Len(defect_logs) : defect_logs[i].status = "open"
    /\ \A i \in 1..Len(defect_logs) : defect_logs[i].created_at = OldDay

\* the checklist items of a QC sheet, and a count with a missing one as 0
ItemsOf(row) == IF Len(row.checklist_json) = 0 THEN <<>> ELSE row.checklist_json[1]
Counted(value) == IF value = JsonNull THEN 0 ELSE value

\* C16 (SpecQuality): the NG rate of calculate_quality_score is 100 * N / C,
\* with N the sum of qty_ng and C the sum of qty_checked over every checklist
\* item of every QC sheet in the window, a missing count taken as 0, and is 0
\* when C is 0.
C16_AggregateNgRate ==
    report.fn = "calculate_quality_score" =>
        LET rows == SelectSeq(qc_sheets, LAMBDA r : /\ r.created_at >= report.period_start
                                                    /\ r.created_at <= report.period_end)
            N == SumSeq([i \in 1..Len(rows) |->
                     SumSeq([j \in 1..Len(ItemsOf(rows[i])) |->
                                Counted(ItemsOf(rows[i])[j].qty_ng)])])
            C == SumSeq([i \in 1..Len(rows) |->
                     SumSeq([j \in 1..Len(ItemsOf(rows[i])) |->
                                Counted(ItemsOf(rows[i])[j].qty_checked)])])
        IN IF C = 0
           THEN report.ng_rate[1] = 0
           ELSE report.ng_rate[1] * C = 100 * N * report.ng_rate[2]

\* C16 witness: one sheet in the window with the items (100, 5) and (50, 0)
\* and one with an item (missing, 1): N = 6, C = 150, the rate 600/150 = 4%;
\* an older sheet with items is not counted.
C16_Witness ==
    /\ last.op = "calculate_quality_score"
    /\ report.period_start = Today - 30
    /\ report.ng_rate = <<600, 150>>
    /\ report.components.ng_score = 600
    /\ Len(qc_sheets) = 7
    /\ qc_sheets[1].created_at = OldDay

C18_SubmitOnlyDraft ==
    [][ last'.op = "submit" =>
          /\ last'.code \in {200, 400, 403, 404}
          /\ last'.code = 200 =>
                /\ last'.id \in DsoIds
                /\ dsos[last'.id].status = "draft"
                /\ dsos' = [dsos EXCEPT ![last'.id].status = "pending_approval"]
                /\ UNCHANGED <<orders, size_chart_dewasa, size_chart_anak,
                               accessories, acc_seq, change_requests,
                               qc_sheets, defect_logs>>
          /\ last'.code # 200 => UNCHANGED db
          /\ \A d \in DsoIds :
                last'.id = d =>
                   IF dsos[d].status = "draft"
                   THEN last'.code = 200
                   ELSE last'.code = 400 ]_vars

\* C18 witness: a DSO that was submitted and then rejected was submitted
\* again, and the request was refused with the DSO still rejected.
C18_Witness ==
    /\ last.op = "submit" /\ last.code = 400
    /\ dsos[last.id].status = "rejected"
    /\ dsos[last.id].approved_by # NoneVal
    /\ dsos[last.id].rejection_reason = "r1"

\* C19 (SpecFlow): an approve request succeeds only on a DSO whose status is
\* pending_approval; it then sets the DSO's status to approved, its
\* approved_by to the acting user and its approved_at to the time of the
\* request, and sets the owning order's status to in_production and its
\* dso_status to created, and changes nothing else; an approve request that
\* reaches a DSO of any other status answers 400, and every approve request
\* that does not succeed changes neither a DSO nor an order.
C19_ApproveOnlyPending ==
    [][ last'.op = "approve" =>
          /\ last'.code \in {200, 400, 403, 404}
          /\ last'.code = 200 =>
                /\ last'.id \in DsoIds
                /\ dsos[last'.id].status = "pending_approval"
                /\ dsos' = [dsos EXCEPT ![last'.id].status = "approved",
                                        ![last'.id].approved_by = last'.user,
                                        ![last'.id].approved_at = UtcNow]
                /\ last'.user # NoneVal
                /\ orders' = [orders EXCEPT
                                ![dsos[last'.id].order_id].status = "in_production",
                                ![dsos[last'.id].order_id].dso_status = "created"]
                /\ UNCHANGED <<size_chart_dewasa, size_chart_anak, accessories,
                               acc_seq, change_requests, qc_sheets, defect_logs>>
          /\ last'.code # 200 => UNCHANGED db
          /\ \A d \in DsoIds :
                last'.id = d =>
                   IF dsos[d].status = "pending_approval"
                   THEN last'.code = 200
                   ELSE last'.code = 400 ]_vars

\* C19 witness: an approve request succeeded: the DSO is approved by the
\* acting user with a timestamp, and its order is in production with
\* dso_status created.
C19_Witness ==
    /\ last.op = "approve" /\ last.code = 200
    /\ dsos[last.id].status = "approved"
    /\ dsos[last.id].approved_by = last.user
    /\ dsos[last.id].approved_at = UtcNow
    /\ orders[dsos[last.id].order_id].status = "in_production"
    /\ orders[dsos[last.id].order_id].dso_status = "created"

\* C20 (SpecFlow): a reject request succeeds only on a DSO whose status is
\* pending_approval; it then sets the DSO's status to rejected, its
\* rejection_reason to the reason of the request, its approved_by to the
\* acting user and its approved_at to the time of the request, and changes
\* nothing else, the order included; a reject request that reaches a DSO of
\* any other status answers 400, and every reject request that does not
\* succeed leaves the database as it was.
C20_RejectOnlyPending ==
    [][ last'.op = "reject" =>
          /\ last'.code \in {200, 400, 403, 404}
          /\ last'.code = 200 =>
                /\ last'.id \in DsoIds
                /\ dsos[last'.id].status = "pending_approval"
                /\ \E data \in RejectBodies :
                      dsos' = [dsos EXCEPT
                                 ![last'.id].status = "rejected",
                                 ![last'.id].rejection_reason = data.reason,
                                 ![last'.id].approved_by = last'.user,
                                 ![last'.id].approved_at = UtcNow]
                /\ last'.user # NoneVal
                /\ UNCHANGED <<orders, size_chart_dewasa, size_chart_anak,
                               accessories, acc_seq, change_requests,
                               qc_sheets, defect_logs>>
          /\ last'.code # 200 => UNCHANGED db
          /\ \A d \in DsoIds :
                last'.id = d =>
                   IF dsos[d].status = "pending_approval"
                   THEN last'.code = 200
                   ELSE last'.code = 400 ]_vars

\* C20 witness: a reject request succeeded on a pending DSO of an order that
\* is still waiting for its DSO: the DSO is rejected with the reason, the
\* acting user and a timestamp.
C20_Witness ==
    /\ last.op = "reject" /\ last.code = 200
    /\ dsos[last.id].status = "rejected"
    /\ dsos[last.id].rejection_reason = "r1"
    /\ dsos[last.id].approved_by = last.user
    /\ dsos[last.id].approved_at = UtcNow
    /\ orders[dsos[last.id].order_id].status # "in_production"

\* C21 (SpecEdit): the row a successful new-version request adds inherits
\* neither approval state nor identity from its source: its id differs from
\* the source's, its status is draft, its approved_by, approved_at and
\* rejection_reason are unset, and its carry-over spec field equals the
\* source's; the source's spec field, approved_by and approved_at are left
\* as they were.
C21_NewVersionInheritsNoApproval ==
    [][ (last'.op = "new_version" /\ last'.code = 201) =>
          LET src == last'.id
              new == Len(dsos) + 1
          IN /\ Len(dsos') = new
             /\ new # src
             /\ dsos'[new].status = "draft"
             /\ dsos'[new].approved_by = NoneVal
             /\ dsos'[new].approved_at = NoneVal
             /\ dsos'[new].rejection_reason = NoneVal
             /\ dsos'[new].bahan = dsos[src].bahan
             /\ dsos'[src].bahan = dsos[src].bahan
             /\ dsos'[src].approved_by = dsos[src].approved_by
             /\ dsos'[src].approved_at = dsos[src].approved_at ]_vars

\* C21 witness: a new version was made of a DSO that was edited, submitted
\* and approved: the source keeps its field, approver and approval time, the
\* new row has the field and no approver and no approval time.
C21_Witness ==
    /\ last.op = "new_version" /\ last.code = 201
    /\ dsos[last.id].bahan = "t1"
    /\ dsos[last.id].approved_by = "admin"
    /\ dsos[last.id].approved_at = UtcNow
    /\ dsos[Len(dsos)].bahan = "t1"
    /\ dsos[Len(dsos)].status = "draft"
    /\ dsos[Len(dsos)].approved_by = NoneVal
    /\ dsos[Len(dsos)].approved_at = NoneVal

\* C22 (SpecRace): no lock and no uniqueness constraint serialises the
\* read-max-then-increment of create_dso: the commit of a request is never
\* refused; it answers 201 and stores one row with the version of the
\* request's own read plus one, whatever other requests committed since the
\* read.  Two requests that both read before either commits therefore store
\* two rows with the same (order_id, version): the witness.
C22_CommitNotSerialised ==
    [][ \A s \in Sessions :
          (sessions[s].pc = "read" /\ sessions'[s].pc = "idle") =>
             /\ last'.op = "create_dso" /\ last'.code = 201
             /\ Len(dsos') = Len(dsos) + 1
             /\ dsos'[Len(dsos')].order_id = sessions[s].order_id
             /\ dsos'[Len(dsos')].version = sessions[s].max_version + 1
             /\ \A d \in DsoIds : dsos'[d] = dsos[d] ]_vars

\* C22 witness: two create_dso requests for one order have both committed
\* and the order has two DSO rows with the same version, none of them a row
\* create_order made.
C22_Witness ==
    /\ last.op = "create_dso" /\ last.code = 201
    /\ \A s \in Sessions : sessions[s].pc = "idle"
    /\ \E d1, d2 \in DsoIds :
          /\ d1 < d2
          /\ dsos[d1].order_id = dsos[d2].order_id
          /\ dsos[d1].version = dsos[d2].version
          /\ dsos[d1].version > 1

\* C23 (SpecSummary): calculate_fpy(start, end) aggregates exactly the
\* inspection records with start <= created_at < end, and in
\* generate_summary_report, whose previous window ends at the instant the
\* current one starts, every inspection record is counted in at most one of
\* the two windows.
C23_HalfOpenWindow ==
    /\ report.fn = "calculate_fpy" =>
          LET rows == SelectSeq(qc_sheets,
                                LAMBDA r : /\ r.created_at >= report.period_start
                                           /\ r.created_at < report.period_end)
          IN /\ report.total_inspected = SumSeq(Column(rows, "qty_inspected"))
             /\ report.total_passed = SumSeq(Column(rows, "qty_passed"))
             /\ report.total_failed = SumSeq(Column(rows, "qty_failed"))
    /\ report.fn = "generate_summary_report" =>
          LET start_date == report.period_start
              end_date == report.period_end
              prev_start == start_date - (end_date - start_date)
              prev_end == start_date
          IN \A i \in 1..Len(qc_sheets) :
                Len(Between(<<qc_sheets[i]>>, prev_start, prev_end))
                  + Len(Between(<<qc_sheets[i]>>, start_date, end_date)) <= 1

\* C25 (SpecSummary): generate_summary_report compares the current window
\* with a window of equal length that ends where the current one starts, and
\* labels fpy_trend and score_trend by the sign of the change with a
\* dead-zone: a positive change is never labelled down and a negative one
\* never up, and a non-zero change within the dead-zone, of which the
\* smallest is one unit of the last decimal place the change is rounded to,
\* is labelled stable.
C25_TrendDeadZone ==
    report.fn = "generate_summary_report" =>
        LET start_date == report.period_start
            end_date == report.period_end
            prev_start == start_date - (end_date - start_date)
            summary == report.summary
        IN /\ summary.fpy_change =
                 calculate_fpy(start_date, end_date).fpy_percentage
                   - calculate_fpy(prev_start, start_date).fpy_percentage
           /\ summary.score_change =
                 calculate_quality_score(start_date, end_date).quality_score
                   - calculate_quality_score(prev_start, start_date).quality_score
           /\ summary.fpy_change > 0 => summary.fpy_trend # "down"
           /\ summary.fpy_change < 0 => summary.fpy_trend # "up"
           /\ summary.score_change > 0 => summary.score_trend # "down"
           /\ summary.score_change < 0 => summary.score_trend # "up"
           /\ summary.fpy_change \in {-1, 1} => summary.fpy_trend = "stable"
           /\ summary.score_change \in {-1, 1} => summary.score_trend = "stable"

\* C24 (SpecSummary): for every content of the inspection and defect tables,
\* records with more passed than inspected or more NG than checked included,
\* calculate_quality_score returns a quality_score from 0 to 100, and its NG
\* component is max(0, 100 - 10 * ng_rate), which is 0 when the NG rate is
\* 10 percent or more.
C24_ScoreWithinRange ==
    report.fn = "calculate_quality_score" =>
        LET rate == report.ng_rate
        IN /\ report.quality_score >= 0
           /\ report.quality_score <= 1000
           /\ report.components.ng_score =
                 IF 10 * rate[1] >= 100 * rate[2] THEN 0
                 ELSE Round(10 * (100 * rate[2] - 10 * rate[1]), rate[2])
           /\ rate[1] >= 10 * rate[2] => report.components.ng_score = 0

\* C26 (SpecFlow): a create_dso request for an order that already has a DSO
\* row, the version 1 that create_order made included, is answered with an
\* error and adds no DSO row; a create_dso request that succeeds was for an
\* order without a DSO, adds version 1 in draft and sets the order's
\* dso_status to draft.
C26_CreateDsoOnlyFirst ==
    [][ last'.op = "create_dso" =>
          /\ \A o \in OrderIds :
                (last'.id = o /\ HasDso(o)) =>
                    /\ last'.code >= 400
                    /\ dsos' = dsos
          /\ last'.code = 201 =>
                /\ ~HasDso(last'.id)
                /\ Len(dsos') = Len(dsos) + 1
                /\ dsos'[Len(dsos')].order_id = last'.id
                /\ dsos'[Len(dsos')].version = 1
                /\ dsos'[Len(dsos')].status = "draft"
                /\ orders'[last'.id].dso_status = "draft" ]_vars

\* C27 (SpecFlow): only a request of a user with role admin or owner makes a
\* DSO approved: in every step in which the status of a DSO changes to
\* approved the request was issued by such a user, and a request of a user
\* of any other role is answered 403 or leaves every DSO's status other than
\* approved as it was.
C27_OnlyApproversApprove ==
    [][ \A d \in DsoIds :
          (dsos[d].status # "approved" /\ dsos'[d].status = "approved") =>
              last'.user \in {"admin", "owner"} ]_vars

\* C28 (SpecFlow): in every reachable state the dso_status of every order is
\* the one Order.update_dso_status defines from the order's DSO rows:
\* not_created when the order has no DSO, created when its DSO of highest
\* version is approved, draft otherwise.
C28_DsoStatusAgrees ==
    \A o \in OrderIds :
        IF HasDso(o)
        THEN \E latest \in get_latest_dso(o) :
                orders[o].dso_status = update_dso_status(o, latest)
        ELSE orders[o].dso_status = "not_created"

\* C29 (SpecProduction): after every request, an order all of whose
\* production tasks are completed has status completed, whichever request
\* completed the last task (complete_production_task or a worker-log update
\* that reaches qty_target), and a task start or a DSO approval does not
\* move a completed order to in_production.
C29_CompletedWhenTasksDone ==
    [][ \A o \in OrderIds :
          /\ AllTasksCompleted(production_tasks', o)
                => orders'[o].status = "completed"
          /\ (orders[o].status = "completed" /\ last'.op \in {"start_task", "approve"})
                => orders'[o].status # "in_production" ]_vars

\* the stock of the materials with the name and type of an item
StockOf(mats, item) ==
    SumSeq([m \in 1..Len(mats) |->
              IF /\ mats[m].name = item.material_name
                 /\ mats[m].material_type = item.material_type
              THEN mats[m].stock_qty ELSE 0])

\* C30 (SpecMaterials): the items of a material request are added to the
\* inventory at most once: an update_material_status call adds to the stock
\* of an item's material nothing or the item's quantity (qty_received if
\* positive, else qty_ordered), adds nothing while the request has no QC
\* sheet or its QC result is fail, and adds nothing when a call already
\* added the item (the inventory being fed by this request alone, when the
\* material has stock).
C30_StoredAtMostOnce ==
    [][ last'.op = "update_material_status" =>
          \A r \in RequestIds :
             last'.id = r =>
                \A i \in 1..Len(material_requests[r].items) :
                   LET item == material_requests[r].items[i]
                       qc_sheet == material_requests[r].qc_sheet
                       added == StockOf(materials', item) - StockOf(materials, item)
                   IN /\ added \in {0, qty_to_store(item)}
                      /\ (qc_sheet = <<>> \/ qc_sheet[1].result = "fail") => added = 0
                      /\ StockOf(materials, item) > 0 => added = 0 ]_vars

====
